---- MODULE Spec2Model ----
(***************************************************************************)
(* A model of the tg-bot repository: the durable store (database.py), the  *)
(* bot manager with its running-bot registry (tg_module.py), the message   *)
(* handler each started application runs, and the reply pipeline           *)
(* (chat_module.py).                                                       *)
(*                                                                         *)
(* Scheduling.  start_bot, stop_bot and delete_bot are coroutines that the *)
(* front end submits to one asyncio event loop                             *)
(* (service_gradio.py:190-209).  The loop runs a coroutine without         *)
(* interruption from one await to the next, so every action below is the   *)
(* code from one await up to the next one.  An awaited call of the         *)
(* transport library either returns (and has its effect) or raises.        *)
(* update_bot and create_bot are plain functions that the front end calls  *)
(* on its own thread.                                                      *)
(***************************************************************************)
EXTENDS Integers, Sequences, FiniteSets, TLC

\* ---------------------------------------------------------------- bounds
\* Concurrent callers of the manager's operations.
NTasks == 2
\* Application objects start_bot may construct in one run.
MaxApps == 2
\* Updates one application's handler is given.
MaxEvents == 2
\* Ticks of the store's clock.
MaxClock == 1
\* Updates one application's handler is given while bots are started,
\* stopped and deleted around it.
MaxLifeEvents == 1

Tasks == 1..NTasks
BotIds == {"b1"}
Tokens == {"tok"}
Handles == {"@h"}
\* Configuration documents (Python dicts read by json.loads): cfgA has the
\* keys name, prompt and product_catalog, cfgB the keys name and prompt.
Configs == {"cfgA", "cfgB"}
ChatIds == {"c1"}
\* Texts of inbound messages.
Texts == {"hi"}
\* Texts and queries the completion service may put into an action.
Replies == {"hello", ""}
Queries == {"red shoes"}
\* Answers of the product lookup.
Answers == {"in stock"}
\* Updates the transport delivers: a text message; an edited text message
\* (update.message is None); a message without text, such as a photo.
Kinds == {"text", "edited", "photo"}

\* An awaited transport call, or a store write, returns or raises.
Outcomes == {"ok", "raise"}

VARIABLES
    bots,          \* table bots: bot_id -> row
    chats,         \* table chats: set of rows
    messages,      \* table messages: rows in insertion (message_id) order
    running_bots,  \* TelegramBotManager.running_bots: bot_id -> application
    apps,          \* the Application objects constructed so far
    task,          \* the calls of the manager in flight: where each stands
    last,          \* history: the call that returned last and its answer
    started,       \* history: bot_id -> application of its last successful
                   \* start_bot, forgotten as soon as a stop_bot step runs
    clock,         \* the store's CURRENT_TIMESTAMP
    handler,       \* application -> the update its message_handler handles
    history        \* the rows the last get_chat_history call returned

\* The variables of the manager's operations, and those of the workers.
wvars == <<clock, handler, history>>

vars ==
    <<bots, chats, messages, running_bots, apps, task, last, started, wvars>>

\* ------------------------------------------------------------ the store
\* json.dumps / json.loads on a JSON document: the text of the document and
\* the document of a text.
json_dumps(config) == <<"json", config>>
json_loads(text) == text[2]

\* 'product_catalog' in config: config['product_catalog'] of a document
\* without the key raises KeyError.
has_product_catalog(config) == config = "cfgA"

\* Function f without key k.
Remove(f, k) == [x \in (DOMAIN f) \ {k} |-> f[x]]

\* Function f with key k bound to v (a Python dict assignment).
Put(f, k, v) == [x \in (DOMAIN f) \cup {k} |-> IF x = k THEN v ELSE f[x]]

\* Database.add_bot's parameters after self.
add_bot_params == <<"bot_id", "token", "bot_handle", "config">>

\* Database.add_bot called with the positional arguments args: a call whose
\* arguments do not fill the parameters raises TypeError before the body
\* runs; a duplicate bot_id is an IntegrityError, answered False.
add_bot(tbl, args) ==
    IF Len(args) # Len(add_bot_params)
    THEN [raised |-> "TypeError", ret |-> "none", tbl |-> tbl]
    ELSE IF args[1] \in DOMAIN tbl
    THEN [raised |-> "none", ret |-> "False", tbl |-> tbl]
    ELSE [raised |-> "none", ret |-> "True",
          tbl |-> Put(tbl, args[1],
                      [token |-> args[2], bot_handle |-> args[3],
                       config |-> json_dumps(args[4]), status |-> "stopped"])]

\* Database.update_bot: UPDATE bots SET config; True iff a row was changed.
update_bot(tbl, bot_id, config) ==
    IF bot_id \in DOMAIN tbl
    THEN [ret |-> "True",
          tbl |-> [tbl EXCEPT ![bot_id].config = json_dumps(config)]]
    ELSE [ret |-> "False", tbl |-> tbl]

\* UPDATE bots SET status without its WHERE clause.
update_bot_status_all(tbl, bot_id, status) ==
    [x \in DOMAIN tbl |-> [tbl[x] EXCEPT !.status = status]]

\* Database.update_bot_status: UPDATE bots SET status.
update_bot_status(tbl, bot_id, status) ==
    IF bot_id \in DOMAIN tbl
    THEN [tbl EXCEPT ![bot_id].status = status]
    ELSE tbl

\* Database.get_bot: the row with its config parsed, or None.
has_bot(tbl, bot_id) == bot_id \in DOMAIN tbl

get_bot(tbl, bot_id) ==
    [bot_id |-> bot_id, token |-> tbl[bot_id].token,
     bot_handle |-> tbl[bot_id].bot_handle,
     config |-> json_loads(tbl[bot_id].config),
     status |-> tbl[bot_id].status]

\* Database.delete_bot: the bot's messages, its chats and its row.
RECURSIVE SelectSeq2(_, _)
SelectSeq2(s, bot_id) ==
    IF s = <<>> THEN <<>>
    ELSE IF Head(s).bot_id = bot_id THEN SelectSeq2(Tail(s), bot_id)
    ELSE <<Head(s)>> \o SelectSeq2(Tail(s), bot_id)

delete_bot_messages(msgs, bot_id) == SelectSeq2(msgs, bot_id)

delete_bot_chats(cs, bot_id) == {c \in cs : c.bot_id # bot_id}

delete_bot_ret(tbl, bot_id) == IF bot_id \in DOMAIN tbl THEN "True" ELSE "False"

\* ------------------------------------------------------------ the tasks
\* A task is idle or stands at an await (or, for update_bot, before its
\* store write) of the call it runs.  peer and peerret are history: a
\* stop_bot call for the same bot that was in flight together with this
\* one, and that call's answer once it has returned.
IdleTask ==
    [op |-> "none", bot |-> "none", pc |-> "idle", app |-> 0, cfg |-> "none",
     peer |-> 0, peerret |-> "none"]

NoCall ==
    [op |-> "none", bot |-> "none", ret |-> "none", why |-> "none",
     peerret |-> "none"]

Free(t) == task[t].pc = "idle"

\* The call op(b) returns ret by the branch why before its first await: no
\* task is left in flight.
ReturnAtOnce(op, b, ret, why) ==
    /\ task' = task
    /\ last' = [op |-> op, bot |-> b, ret |-> ret, why |-> why,
                peerret |-> "none"]

\* Task t returns ret from its call, by the branch why.
Return(t, ret, why) ==
    /\ task' = [x \in Tasks |->
          IF x = t THEN IdleTask
          ELSE IF task[t].op = "stop" /\ task[t].peer = x
                  /\ task[x].op = "stop" /\ task[x].peer = t
          THEN [task[x] EXCEPT !.peerret = ret]
          ELSE task[x]]
    /\ last' = [op |-> task[t].op, bot |-> task[t].bot, ret |-> ret,
                why |-> why, peerret |-> task[t].peerret]

\* A fresh Application for bot b with the reply function bound to config.
NewApp(b, config) ==
    [bot |-> b, config |-> config, initialized |-> FALSE, running |-> FALSE,
     polling |-> FALSE]

\* A stop_bot step for bot b has run: the last successful start is history.
Forget(b) == [x \in DOMAIN started \ {b} |-> started[x]]

\* --------------------------------------------------------- the handlers
NoAction == [action |-> "none", input |-> [type |-> "none", value |-> "none"]]

\* What an application's message_handler is doing: idle, or at an await of
\* the update it handles.  ev numbers the application's updates; ncomp and
\* nlook count the completion and lookup calls of the pipeline run, first
\* is the first completion call's result, out the text reply() returned.
\* kind is the update's kind; second is what the backend answered to the
\* second completion call, query and ctx the arguments of the lookup and
\* of the second call; fail names what raised, nrows counts the message
\* rows the handling inserted and sent is the text delivered to the chat.
IdleHandler ==
    [pc |-> "idle", chat |-> "none", ev |-> 0, kind |-> "none",
     ncomp |-> 0, nlook |-> 0, first |-> NoAction, second |-> NoAction,
     query |-> "none", ctx |-> "none", returned |-> FALSE, out |-> "none",
     fail |-> "none", nrows |-> 0, sent |-> "none"]

\* ---------------------------------------------------------------- Init
\* The store is a file that outlives the process: the manager is
\* constructed over whatever bots table earlier add_bot calls left, every
\* row with the schema's default status; the registry is empty.
BotRows ==
    [token : Tokens, bot_handle : Handles,
     config : {json_dumps(c) : c \in Configs}, status : {"stopped"}]

Init ==
    /\ \E S \in SUBSET BotIds : bots \in [S -> BotRows]
    /\ chats = {}
    /\ messages = <<>>
    /\ running_bots = [b \in {} |-> 0]
    /\ apps = <<>>
    /\ task = [t \in Tasks |-> IdleTask]
    /\ last = NoCall
    /\ started = [b \in {} |-> 0]
    /\ clock = 0
    /\ handler = [a \in 1..MaxApps |-> IdleHandler]
    /\ history = <<>>

\* ----------------------------------------------------------- create_bot
\* TelegramBotManager.create_bot's parameters after self.
create_bot_params == <<"token", "config">>

\* TelegramBotManager.create_bot called with the positional arguments args,
\* bot_id being the uuid4 it draws: it hands add_bot three arguments.
create_bot(tbl, bot_id, args) ==
    IF Len(args) # Len(create_bot_params)
    THEN [raised |-> "TypeError", ret |-> "none", tbl |-> tbl]
    ELSE LET r == add_bot(tbl, <<bot_id, args[1], args[2]>>)
         IN  IF r.raised # "none" THEN r
             ELSE IF r.ret = "True"
             THEN [raised |-> "none", ret |-> bot_id, tbl |-> r.tbl]
             ELSE [raised |-> "none", ret |-> "None", tbl |-> tbl]

\* The calls of create_bot: the front end's create_bot passes (token,
\* bot_handle, config); a caller that follows the manager's signature
\* passes (token, config).
CreateArgs(token, handle, config) ==
    {<<token, handle, config>>, <<token, config>>}

CreateBot(t, bot_id, token, handle, config) ==
    /\ UNCHANGED wvars
    /\ Free(t)
    /\ \E args \in CreateArgs(token, handle, config) :
         LET r == create_bot(bots, bot_id, args)
         IN  /\ bots' = r.tbl
             /\ IF r.raised # "none"
                THEN ReturnAtOnce("create", bot_id, "raise", r.raised)
                ELSE ReturnAtOnce("create", bot_id, r.ret, "returned")
    /\ UNCHANGED <<chats, messages, running_bots, apps, started>>

\* ----------------------------------------------------------- update_bot
\* update_bot without its registry test.
UpdateCheck_NoTest(t, b, config) ==
    /\ UNCHANGED wvars
    /\ Free(t)
    /\ task' = [task EXCEPT ![t] =
           [IdleTask EXCEPT !.op = "update", !.bot = b, !.cfg = config,
               !.pc = "write"]]
    /\ last' = last
    /\ UNCHANGED <<bots, chats, messages, running_bots, apps, started>>

\* TelegramBotManager.update_bot up to its registry test: a running bot is
\* answered False at once; otherwise the caller goes on to the store.
UpdateCheck(t, b, config) ==
    /\ UNCHANGED wvars
    /\ Free(t)
    /\ IF b \in DOMAIN running_bots
       THEN ReturnAtOnce("update", b, "False", "running")
       ELSE /\ task' = [task EXCEPT ![t] =
                   [IdleTask EXCEPT !.op = "update", !.bot = b,
                       !.cfg = config, !.pc = "write"]]
            /\ last' = last
    /\ UNCHANGED <<bots, chats, messages, running_bots, apps, started>>

\* TelegramBotManager.update_bot's store write, Database.update_bot: its
\* answer is returned; an error of the store leaves the row and propagates.
UpdateWrite(t, o) ==
    /\ UNCHANGED wvars
    /\ task[t].op = "update" /\ task[t].pc = "write"
    /\ LET r == update_bot(bots, task[t].bot, task[t].cfg)
       IN  IF o = "ok"
           THEN /\ bots' = r.tbl
                /\ Return(t, r.ret, IF r.ret = "True" THEN "updated"
                                    ELSE "not_found")
           ELSE /\ bots' = bots
                /\ Return(t, "raise", "store")
    /\ UNCHANGED <<chats, messages, running_bots, apps, started>>

\* ------------------------------------------------------------ start_bot
\* start_bot without its registry test.
StartCall_NoTest(t, b, o) ==
    /\ UNCHANGED wvars
    /\ Free(t)
    /\ IF ~has_bot(bots, b)
       THEN /\ ReturnAtOnce("start", b, "False", "not_found")
            /\ apps' = apps
       ELSE IF o = "raise"
       THEN /\ ReturnAtOnce("start", b, "False", "build")
            /\ apps' = apps
       ELSE /\ Len(apps) < MaxApps
            /\ apps' = Append(apps, NewApp(b, get_bot(bots, b).config))
            /\ task' = [task EXCEPT ![t] =
                   [IdleTask EXCEPT !.op = "start", !.bot = b,
                       !.pc = "initialize", !.app = Len(apps) + 1]]
            /\ last' = last
    /\ UNCHANGED <<bots, chats, messages, running_bots, started>>

\* start_bot to its first await: the registry test, the row, and the
\* construction of the application and of its reply function over the
\* row's configuration (Application.builder()...build() may raise).
StartCall(t, b, o) ==
    /\ UNCHANGED wvars
    /\ Free(t)
    /\ IF b \in DOMAIN running_bots
       THEN /\ ReturnAtOnce("start", b, "False", "already_running")
            /\ apps' = apps
       ELSE IF ~has_bot(bots, b)
       THEN /\ ReturnAtOnce("start", b, "False", "not_found")
            /\ apps' = apps
       ELSE IF o = "raise"
       THEN /\ ReturnAtOnce("start", b, "False", "build")
            /\ apps' = apps
       ELSE /\ Len(apps) < MaxApps
            /\ apps' = Append(apps, NewApp(b, get_bot(bots, b).config))
            /\ task' = [task EXCEPT ![t] =
                   [IdleTask EXCEPT !.op = "start", !.bot = b,
                       !.pc = "initialize", !.app = Len(apps) + 1]]
            /\ last' = last
    /\ UNCHANGED <<bots, chats, messages, running_bots, started>>

\* await application.initialize()
StartInitialize(t, o) ==
    /\ UNCHANGED wvars
    /\ task[t].op = "start" /\ task[t].pc = "initialize"
    /\ IF o = "ok"
       THEN /\ apps' = [apps EXCEPT ![task[t].app].initialized = TRUE]
            /\ task' = [task EXCEPT ![t].pc = "start"]
            /\ last' = last
       ELSE /\ apps' = apps
            /\ Return(t, "False", "initialize")
    /\ UNCHANGED <<bots, chats, messages, running_bots, started>>

\* application.start() followed at once by the status write, before the
\* receive loop is started.
StartStart_Writes(t, o) ==
    /\ UNCHANGED wvars
    /\ task[t].op = "start" /\ task[t].pc = "start"
    /\ IF o = "ok"
       THEN /\ apps' = [apps EXCEPT ![task[t].app].running = TRUE]
            /\ bots' = update_bot_status(bots, task[t].bot, "running")
            /\ task' = [task EXCEPT ![t].pc = "start_polling"]
            /\ last' = last
       ELSE /\ apps' = apps
            /\ bots' = bots
            /\ Return(t, "False", "start")
    /\ UNCHANGED <<chats, messages, running_bots, started>>

\* await application.start()
StartStart(t, o) ==
    /\ UNCHANGED wvars
    /\ task[t].op = "start" /\ task[t].pc = "start"
    /\ IF o = "ok"
       THEN /\ apps' = [apps EXCEPT ![task[t].app].running = TRUE]
            /\ task' = [task EXCEPT ![t].pc = "start_polling"]
            /\ last' = last
       ELSE /\ apps' = apps
            /\ Return(t, "False", "start")
    /\ UNCHANGED <<bots, chats, messages, running_bots, started>>

\* await application.updater.start_polling(): the receive loop is active
\* when the call returns.
StartPolling(t, o) ==
    /\ UNCHANGED wvars
    /\ task[t].op = "start" /\ task[t].pc = "start_polling"
    /\ IF o = "ok"
       THEN /\ apps' = [apps EXCEPT ![task[t].app].polling = TRUE]
            /\ task' = [task EXCEPT ![t].pc = "register"]
            /\ last' = last
       ELSE /\ apps' = apps
            /\ Return(t, "False", "start_polling")
    /\ UNCHANGED <<bots, chats, messages, running_bots, started>>

\* start_bot after its last await: the registry entry, then the status
\* write; an error of the store is caught by start_bot's except clause.
StartRegister(t, o) ==
    /\ UNCHANGED wvars
    /\ task[t].op = "start" /\ task[t].pc = "register"
    /\ running_bots' = Put(running_bots, task[t].bot, task[t].app)
    /\ IF o = "ok"
       THEN /\ bots' = update_bot_status(bots, task[t].bot, "running")
            /\ started' = Put(started, task[t].bot, task[t].app)
            /\ Return(t, "True", "started")
       ELSE /\ bots' = bots
            /\ started' = started
            /\ Return(t, "False", "store")
    /\ UNCHANGED <<chats, messages, apps>>

\* ------------------------------------------- stop_bot (and delete_bot)
\* Database.delete_bot as delete_bot calls it, on the bots table tbl that
\* the stop before it left: the three DELETEs commit together, and the
\* answer is whether a bots row went; an error of the store propagates.
DeleteRows(t, tbl, o) ==
    LET b == task[t].bot
    IN  IF o = "ok"
        THEN /\ bots' = Remove(tbl, b)
             /\ chats' = delete_bot_chats(chats, b)
             /\ messages' = delete_bot_messages(messages, b)
             /\ Return(t, delete_bot_ret(tbl, b),
                       IF has_bot(tbl, b) THEN "deleted" ELSE "not_found")
        ELSE /\ bots' = tbl
             /\ UNCHANGED <<chats, messages>>
             /\ Return(t, "raise", "store")

\* stop_bot returns ret, having left the bots table tbl.  Called by
\* delete_bot, its answer is dropped and Database.delete_bot follows in
\* the same uninterrupted run.
StopReturn(t, ret, why, tbl, o) ==
    IF task[t].op = "stop"
    THEN /\ bots' = tbl
         /\ UNCHANGED <<chats, messages>>
         /\ Return(t, ret, why)
    ELSE DeleteRows(t, tbl, o)

\* The stop_bot calls in flight for bot b, other than task t's.
StopPeers(t, b) ==
    {u \in Tasks \ {t} : task[u].op = "stop" /\ task[u].bot = b /\ ~Free(u)}

\* stop_bot that writes status stopped before it answers a bot that is not
\* running.
StopCall_Writes(t, b) ==
    /\ UNCHANGED wvars
    /\ Free(t)
    /\ IF b \notin DOMAIN running_bots
       THEN /\ ReturnAtOnce("stop", b, "False", "not_running")
            /\ bots' = update_bot_status(bots, b, "stopped")
            /\ started' = started
       ELSE /\ task' = [task EXCEPT ![t] =
                   [IdleTask EXCEPT !.op = "stop", !.bot = b,
                       !.pc = "updater_stop", !.app = running_bots[b]]]
            /\ bots' = bots
            /\ last' = last
            /\ started' = Forget(b)
    /\ UNCHANGED <<chats, messages, running_bots, apps>>

\* stop_bot to its first await: the registry test and the registry read.
\* peer records a stop_bot call for the same bot that is in flight.
StopCall(t, b) ==
    /\ UNCHANGED wvars
    /\ Free(t)
    /\ IF b \notin DOMAIN running_bots
       THEN /\ ReturnAtOnce("stop", b, "False", "not_running")
            /\ started' = started
       ELSE /\ \E u \in IF StopPeers(t, b) = {} THEN {0} ELSE StopPeers(t, b) :
                 task' = [x \in Tasks |->
                    IF x = t
                    THEN [IdleTask EXCEPT !.op = "stop", !.bot = b,
                             !.pc = "updater_stop",
                             !.app = running_bots[b], !.peer = u]
                    ELSE IF x = u THEN [task[x] EXCEPT !.peer = t]
                    ELSE task[x]]
            /\ last' = last
            /\ started' = Forget(b)
    /\ UNCHANGED <<bots, chats, messages, running_bots, apps>>

\* await application.updater.stop(): an updater that is not polling raises.
StopUpdater(t, o) ==
    /\ UNCHANGED wvars
    /\ task[t].op \in {"stop", "delete"} /\ task[t].pc = "updater_stop"
    /\ started' = Forget(task[t].bot)
    /\ IF o = "ok" /\ apps[task[t].app].polling
       THEN /\ apps' = [apps EXCEPT ![task[t].app].polling = FALSE]
            /\ task' = [task EXCEPT ![t].pc = "app_stop"]
            /\ last' = last
            /\ UNCHANGED <<bots, chats, messages>>
       ELSE /\ apps' = apps
            /\ \E od \in Outcomes :
                 StopReturn(t, "False", "updater_stop", bots, od)
    /\ UNCHANGED running_bots

\* await application.stop(): an application that is not running raises;
\* otherwise the call returns once the update being handled has been
\* handled (it waits for the update queue and for the fetcher task).
StopApp(t, o) ==
    /\ UNCHANGED wvars
    /\ task[t].op \in {"stop", "delete"} /\ task[t].pc = "app_stop"
    /\ (o = "ok" /\ apps[task[t].app].running)
          => handler[task[t].app].pc = "idle"
    /\ started' = Forget(task[t].bot)
    /\ IF o = "ok" /\ apps[task[t].app].running
       THEN /\ apps' = [apps EXCEPT ![task[t].app].running = FALSE]
            /\ task' = [task EXCEPT ![t].pc = "shutdown"]
            /\ last' = last
            /\ UNCHANGED <<bots, chats, messages>>
       ELSE /\ apps' = apps
            /\ \E od \in Outcomes :
                 StopReturn(t, "False", "app_stop", bots, od)
    /\ UNCHANGED running_bots

\* await application.shutdown(): an application still running raises.
StopShutdown(t, o) ==
    /\ UNCHANGED wvars
    /\ task[t].op \in {"stop", "delete"} /\ task[t].pc = "shutdown"
    /\ started' = Forget(task[t].bot)
    /\ IF o = "ok" /\ ~apps[task[t].app].running
       THEN /\ apps' = [apps EXCEPT ![task[t].app].initialized = FALSE]
            /\ task' = [task EXCEPT ![t].pc = "unregister"]
            /\ last' = last
            /\ UNCHANGED <<bots, chats, messages>>
       ELSE /\ apps' = apps
            /\ \E od \in Outcomes :
                 StopReturn(t, "False", "shutdown", bots, od)
    /\ UNCHANGED running_bots

\* stop_bot after its last await: del running_bots[bot_id] (a KeyError when
\* the key is gone), then the status write; both errors are caught by
\* stop_bot's except clause.
StopUnregister(t, o) ==
    /\ UNCHANGED wvars
    /\ task[t].op \in {"stop", "delete"} /\ task[t].pc = "unregister"
    /\ started' = Forget(task[t].bot)
    /\ apps' = apps
    /\ \E od \in Outcomes :
         IF task[t].bot \notin DOMAIN running_bots
         THEN /\ running_bots' = running_bots
              /\ StopReturn(t, "False", "KeyError", bots, od)
         ELSE /\ running_bots' = Remove(running_bots, task[t].bot)
              /\ IF o = "ok"
                 THEN StopReturn(t, "True", "stopped",
                        update_bot_status(bots, task[t].bot, "stopped"), od)
                 ELSE StopReturn(t, "False", "store", bots, od)

\* delete_bot to its first await: a bot in the registry is stopped first
\* (stop_bot's own registry test passes in the same run); any other bot's
\* rows are deleted at once.
DeleteCall(t, b, o) ==
    /\ UNCHANGED wvars
    /\ Free(t)
    /\ IF b \in DOMAIN running_bots
       THEN /\ task' = [task EXCEPT ![t] =
                   [IdleTask EXCEPT !.op = "delete", !.bot = b,
                       !.pc = "updater_stop", !.app = running_bots[b]]]
            /\ last' = last
            /\ started' = Forget(b)
            /\ UNCHANGED <<bots, chats, messages>>
       ELSE /\ started' = started
            /\ IF o = "ok"
               THEN /\ bots' = Remove(bots, b)
                    /\ chats' = delete_bot_chats(chats, b)
                    /\ messages' = delete_bot_messages(messages, b)
                    /\ ReturnAtOnce("delete", b,
                          delete_bot_ret(bots, b),
                          IF has_bot(bots, b) THEN "deleted" ELSE "not_found")
               ELSE /\ UNCHANGED <<bots, chats, messages>>
                    /\ ReturnAtOnce("delete", b, "raise", "store")
    /\ UNCHANGED <<running_bots, apps>>

\* ------------------------------------------------- the store's chat side
\* Database.add_chat: INSERT; a row with the same (chat_id, bot_id) is an
\* IntegrityError and nothing is written.
add_chat(cs, chat_id, bot_id, chat_name) ==
    IF \E c \in cs : c.chat_id = chat_id /\ c.bot_id = bot_id
    THEN cs
    ELSE cs \cup {[chat_id |-> chat_id, bot_id |-> bot_id,
                   chat_name |-> chat_name]}

\* Database.add_message: INSERT with timestamp CURRENT_TIMESTAMP (now).
\* message_id is the row's place in the table.  ev is history: the update
\* of its application that the row belongs to.
add_message(msgs, chat_id, bot_id, message_text, is_from_bot, now, ev) ==
    Append(msgs, [chat_id |-> chat_id, bot_id |-> bot_id,
                  message_text |-> message_text, is_from_bot |-> is_from_bot,
                  timestamp |-> now, ev |-> ev])

\* The rows of one chat, in message_id order.
ChatRows(msgs, chat_id, bot_id) ==
    SelectSeq(msgs, LAMBDA r : r.chat_id = chat_id /\ r.bot_id = bot_id)

\* Database.get_chat_history: SELECT ... ORDER BY timestamp.  The query
\* names no second sort key, so rows of equal timestamp come in whatever
\* order the engine produces: every order sorted by timestamp is an answer.
get_chat_history(msgs, chat_id, bot_id) ==
    LET R == ChatRows(msgs, chat_id, bot_id)
        n == Len(R)
        Orders == {q \in [1..n -> 1..n] :
                     /\ \A i, j \in 1..n : i # j => q[i] # q[j]
                     /\ \A i, j \in 1..n :
                          i < j => R[q[i]].timestamp <= R[q[j]].timestamp}
    IN  {[i \in 1..n |->
            [message |-> R[q[i]].message_text,
             is_from_bot |-> R[q[i]].is_from_bot,
             timestamp |-> R[q[i]].timestamp, ev |-> R[q[i]].ev]] :
         q \in Orders}

\* TelegramBotManager.get_chat_history, called by the front end.
GetHistory(bot_id, chat_id) ==
    /\ history' \in get_chat_history(messages, chat_id, bot_id)
    /\ UNCHANGED <<bots, chats, messages, running_bots, apps, task, last,
                   started, clock, handler>>

\* A second passes on the store's clock.
Tick ==
    /\ clock < MaxClock
    /\ clock' = clock + 1
    /\ UNCHANGED <<bots, chats, messages, running_bots, apps, task, last,
                   started, handler, history>>

\* ------------------------------------------------------ the reply pipeline
Apology == "Sorry, I encountered an error while processing your message."
Fallback == "Sorry, I can only echo text messages."

\* class Action: a tag and a payload; the payload's type is not tied to the
\* tag.  class ReplyAction: the tag reply with a Reply payload.
ReplyInputs == {[type |-> "Reply", value |-> m] : m \in Replies}
QueryInputs == {[type |-> "ProductSearchQuery", value |-> q] : q \in Queries}

Actions ==
    {[action |-> a, input |-> i] :
        a \in {"product_search", "reply"}, i \in ReplyInputs \cup QueryInputs}

ReplyActions == {[action |-> "reply", input |-> i] : i \in ReplyInputs}

\* act() raised: the completion call failed or its output did not parse.
Raised == [action |-> "raise", input |-> [type |-> "none", value |-> "none"]]

\* reply() that returns the action's tag in place of its message.
reply_text_tag(action) ==
    IF action.action = "reply" /\ action.input.type = "Reply"
    THEN action.action
    ELSE Apology

\* reply()'s last two statements and its except clause: the message of a
\* reply action; a failed assert, a payload without .message and a raised
\* call all end in the apology.
reply_text(action) ==
    IF action.action = "reply" /\ action.input.type = "Reply"
    THEN action.input.value
    ELSE Apology

\* Whether reply() goes on to the lookup: the tag product_search with a
\* payload that has .query.
wants_search(action) ==
    action.action = "product_search"
    /\ action.input.type = "ProductSearchQuery"

\* ------------------------------------------------------ message_handler
\* The handler's filter, filters.TEXT & ~filters.COMMAND: it looks at the
\* update's effective message, so a text message and an edited text message
\* pass, and a message without text does not reach message_handler.
TEXT_not_COMMAND(kind) == kind \in {"text", "edited"}

\* The backend's answer raw read as response_model=ReplyAction: an answer
\* of another shape does not validate and act() raises.
as_ReplyAction(raw) == IF raw \in ReplyActions THEN raw ELSE Raised

\* Why reply() ends in its except clause after the first completion call
\* answered res for a bot configured with config, if it does.
first_failure(res, config) ==
    IF res = Raised THEN "completion"
    ELSE IF wants_search(res)
    THEN (IF has_product_catalog(config) THEN "none" ELSE "catalog")
    ELSE IF res.action = "reply" /\ res.input.type = "Reply" THEN "none"
    ELSE "shape"

\* message_handler that sends the reply without recording it first.
HandlerReply_Unrecorded(a, h, text, w) ==
    IF text # ""
    THEN /\ messages' = messages
         /\ handler' = [handler EXCEPT ![a] =
                [h EXCEPT !.pc = "send", !.returned = TRUE, !.out = text]]
    ELSE /\ messages' = messages
         /\ handler' = [handler EXCEPT ![a] =
                [h EXCEPT !.pc = "idle", !.returned = TRUE, !.out = text]]

\* message_handler once reply_func has returned text for application a,
\* whose handler record is h: a non-empty reply is recorded, then sent.  w
\* is the outcome of the store write: an error of the store leaves
\* message_handler before anything is sent.
HandlerReply(a, h, text, w) ==
    IF text # "" /\ w = "ok"
    THEN /\ messages' = add_message(messages, h.chat, apps[a].bot, text, TRUE,
                                    clock, h.ev)
         /\ handler' = [handler EXCEPT ![a] =
                [h EXCEPT !.pc = "send", !.returned = TRUE, !.out = text,
                          !.nrows = @ + 1]]
    ELSE /\ messages' = messages
         /\ handler' = [handler EXCEPT ![a] =
                [h EXCEPT !.pc = "idle", !.returned = TRUE, !.out = text,
                          !.fail = IF text # "" THEN "store" ELSE @]]

\* message_handler that goes on to reply() when the store raised while the
\* chat and the inbound message were being written.
HandleUpdate_Swallow(a, chat_id, kind, text, o) ==
    /\ a \in DOMAIN apps
    /\ apps[a].running /\ apps[a].polling
    /\ handler[a].pc = "idle"
    /\ handler[a].ev < MaxEvents
    /\ kind = "text"
    /\ LET b == apps[a].bot
           h == [IdleHandler EXCEPT !.chat = chat_id, !.ev = handler[a].ev + 1,
                                    !.kind = kind]
       IN  /\ chats' = add_chat(chats, chat_id, b, chat_id)
           /\ IF o = "raise"
              THEN /\ messages' = messages
                   /\ handler' = [handler EXCEPT ![a] =
                          [h EXCEPT !.pc = "act1"]]
              ELSE /\ messages' = add_message(messages, chat_id, b, text,
                                              FALSE, clock, h.ev)
                   /\ handler' = [handler EXCEPT ![a] =
                          [h EXCEPT !.pc = "act1", !.nrows = 1]]
    /\ UNCHANGED <<bots, running_bots, apps, task, last, started, clock,
                   history>>

\* message_handler to its first await, for an update of kind kind that the
\* transport delivers to application a.  An update the filter rejects is
\* dropped.  For the others the chat is inserted and the history read (o
\* is the outcome of the store calls: an error leaves message_handler, with
\* the chat row written or not); a text message is recorded and reply()
\* awaits the first completion call; for an edited message update.message
\* is None: reply() returns the fallback text, which is recorded, and
\* update.message.reply_text raises on None.
HandleUpdate(a, chat_id, kind, text, o) ==
    /\ a \in DOMAIN apps
    /\ apps[a].running /\ apps[a].polling
    /\ handler[a].pc = "idle"
    /\ handler[a].ev < MaxEvents
    /\ LET b == apps[a].bot
           h == [IdleHandler EXCEPT !.chat = chat_id, !.ev = handler[a].ev + 1,
                                    !.kind = kind]
       IN  IF ~TEXT_not_COMMAND(kind)
           THEN /\ handler' = [handler EXCEPT ![a] = h]
                /\ UNCHANGED <<chats, messages>>
           ELSE IF o = "raise"
           THEN /\ chats' \in {chats, add_chat(chats, chat_id, b, chat_id)}
                /\ messages' = messages
                /\ handler' = [handler EXCEPT ![a] =
                       [h EXCEPT !.fail = "store"]]
           ELSE /\ chats' = add_chat(chats, chat_id, b, chat_id)
                /\ IF kind = "text"
                   THEN /\ messages' = add_message(messages, chat_id, b, text,
                                                   FALSE, clock, h.ev)
                        /\ handler' = [handler EXCEPT ![a] =
                               [h EXCEPT !.pc = "act1", !.nrows = 1]]
                   ELSE /\ messages' = add_message(messages, chat_id, b,
                                                   Fallback, TRUE, clock, h.ev)
                        /\ handler' = [handler EXCEPT ![a] =
                               [h EXCEPT !.returned = TRUE, !.out = Fallback,
                                         !.nrows = 1, !.fail = "no_message"]]
    /\ UNCHANGED <<bots, running_bots, apps, task, last, started, clock,
                   history>>

\* await act(prompt, chat_histories_str): the first completion call, and
\* what reply() does with its answer up to the next await.
Act1(a, res, w) ==
    /\ handler[a].pc = "act1"
    /\ LET h == [handler[a] EXCEPT !.ncomp = @ + 1, !.first = res,
                    !.fail = first_failure(res, apps[a].config)]
       IN  IF wants_search(res) /\ has_product_catalog(apps[a].config)
           THEN /\ handler' = [handler EXCEPT ![a] =
                       [h EXCEPT !.pc = "lookup", !.query = res.input.value]]
                /\ messages' = messages
           ELSE HandlerReply(a, h, reply_text(res), w)
    /\ UNCHANGED <<bots, chats, running_bots, apps, task, last, started,
                   clock, history>>

\* The lookup made again after it has answered, before the second
\* completion call.
Lookup_Repeat(a, ans, w) ==
    /\ handler[a].pc = "lookup"
    /\ LET h == [handler[a] EXCEPT !.nlook = @ + 1]
       IN  IF ans # "raise"
           THEN /\ handler' = [handler EXCEPT ![a] =
                       [h EXCEPT !.pc = IF h.nlook < 2 THEN "lookup"
                                        ELSE "act2",
                                 !.ctx = ans]]
                /\ messages' = messages
           ELSE HandlerReply(a, [h EXCEPT !.fail = "lookup"], Apology, w)
    /\ UNCHANGED <<bots, chats, running_bots, apps, task, last, started,
                   clock, history>>

\* await product_search(config['product_catalog'], query): the lookup
\* answers ans or raises.
Lookup(a, ans, w) ==
    /\ handler[a].pc = "lookup"
    /\ LET h == [handler[a] EXCEPT !.nlook = @ + 1]
       IN  IF ans # "raise"
           THEN /\ handler' = [handler EXCEPT ![a] =
                       [h EXCEPT !.pc = "act2", !.ctx = ans]]
                /\ messages' = messages
           ELSE HandlerReply(a, [h EXCEPT !.fail = "lookup"], Apology, w)
    /\ UNCHANGED <<bots, chats, running_bots, apps, task, last, started,
                   clock, history>>

\* The second completion call with its answer dropped: reply() ends in the
\* apology whatever the backend answered.
Act2_Unread(a, raw, w) ==
    /\ handler[a].pc = "act2"
    /\ LET h == [handler[a] EXCEPT !.ncomp = @ + 1, !.second = raw]
       IN  HandlerReply(a, h, Apology, w)
    /\ UNCHANGED <<bots, chats, running_bots, apps, task, last, started,
                   clock, history>>

\* await act(prompt, chat_histories_str, product_search_result,
\* ReplyAction): the second completion call, to which the backend answers
\* raw, read as a ReplyAction.
Act2(a, raw, w) ==
    /\ handler[a].pc = "act2"
    /\ LET res == as_ReplyAction(raw)
           h == [handler[a] EXCEPT !.ncomp = @ + 1, !.second = raw,
                    !.fail = IF raw = Raised THEN "completion"
                             ELSE IF res = Raised THEN "contract" ELSE "none"]
       IN  HandlerReply(a, h, reply_text(res), w)
    /\ UNCHANGED <<bots, chats, running_bots, apps, task, last, started,
                   clock, history>>

\* await update.message.reply_text(reply): the text is delivered, or the
\* call raises; either way message_handler ends.
Send(a, o) ==
    /\ handler[a].pc = "send"
    /\ handler' = [handler EXCEPT ![a] =
           IF o = "ok"
           THEN [handler[a] EXCEPT !.pc = "idle", !.sent = handler[a].out]
           ELSE [handler[a] EXCEPT !.pc = "idle", !.fail = "send"]]
    /\ UNCHANGED <<bots, chats, messages, running_bots, apps, task, last,
                   started, clock, history>>

\* ------------------------------------------------------- specification
Next ==
    \/ \E t \in Tasks, b \in BotIds, k \in Tokens, h \in Handles,
          c \in Configs : CreateBot(t, b, k, h, c)
    \/ \E t \in Tasks, b \in BotIds, c \in Configs : UpdateCheck(t, b, c)
    \/ \E t \in Tasks, o \in Outcomes : UpdateWrite(t, o)
    \/ \E t \in Tasks, b \in BotIds, o \in Outcomes : StartCall(t, b, o)
    \/ \E t \in Tasks, o \in Outcomes : StartInitialize(t, o)
    \/ \E t \in Tasks, o \in Outcomes : StartStart(t, o)
    \/ \E t \in Tasks, o \in Outcomes : StartPolling(t, o)
    \/ \E t \in Tasks, o \in Outcomes : StartRegister(t, o)
    \/ \E t \in Tasks, b \in BotIds : StopCall(t, b)
    \/ \E t \in Tasks, o \in Outcomes : StopUpdater(t, o)
    \/ \E t \in Tasks, o \in Outcomes : StopApp(t, o)
    \/ \E t \in Tasks, o \in Outcomes : StopShutdown(t, o)
    \/ \E t \in Tasks, o \in Outcomes : StopUnregister(t, o)
    \/ \E t \in Tasks, b \in BotIds, o \in Outcomes : DeleteCall(t, b, o)

Spec == Init /\ [][Next]_vars

\* One caller that starts bots, and the workers it starts.
NextPipeline ==
    \/ \E b \in BotIds, o \in Outcomes : StartCall(1, b, o)
    \/ \E o \in Outcomes : StartInitialize(1, o)
    \/ \E o \in Outcomes : StartStart(1, o)
    \/ \E o \in Outcomes : StartPolling(1, o)
    \/ \E o \in Outcomes : StartRegister(1, o)
    \/ \E a \in 1..MaxApps, c \in ChatIds, k \in Kinds, x \in Texts,
          o \in Outcomes : HandleUpdate(a, c, k, x, o)
    \/ \E a \in 1..MaxApps, r \in Actions \cup {Raised}, w \in Outcomes :
          Act1(a, r, w)
    \/ \E a \in 1..MaxApps, r \in Answers \cup {"raise"}, w \in Outcomes :
          Lookup(a, r, w)
    \/ \E a \in 1..MaxApps, r \in Actions \cup {Raised}, w \in Outcomes :
          Act2(a, r, w)
    \/ \E a \in 1..MaxApps, o \in Outcomes : Send(a, o)

SpecPipeline == Init /\ [][NextPipeline]_vars

\* The same with the store's clock and the front end's history reads.
NextWorker ==
    \/ NextPipeline
    \/ Tick
    \/ \E b \in BotIds, c \in ChatIds : GetHistory(b, c)

SpecWorker == Init /\ [][NextWorker]_vars

\* Callers that start, stop and delete bots, and the workers in between:
\* text messages that the completion service answers directly.
NextLife ==
    \/ \E t \in Tasks, b \in BotIds, o \in Outcomes : StartCall(t, b, o)
    \/ \E t \in Tasks, o \in Outcomes : StartInitialize(t, o)
    \/ \E t \in Tasks, o \in Outcomes : StartStart(t, o)
    \/ \E t \in Tasks, o \in Outcomes : StartPolling(t, o)
    \/ \E t \in Tasks, o \in Outcomes : StartRegister(t, o)
    \/ \E t \in Tasks, b \in BotIds : StopCall(t, b)
    \/ \E t \in Tasks, o \in Outcomes : StopUpdater(t, o)
    \/ \E t \in Tasks, o \in Outcomes : StopApp(t, o)
    \/ \E t \in Tasks, o \in Outcomes : StopShutdown(t, o)
    \/ \E t \in Tasks, o \in Outcomes : StopUnregister(t, o)
    \/ \E t \in Tasks, b \in BotIds, o \in Outcomes : DeleteCall(t, b, o)
    \/ \E a \in 1..MaxApps, c \in ChatIds, x \in Texts :
          /\ handler[a].ev < MaxLifeEvents
          /\ HandleUpdate(a, c, "text", x, "ok")
    \/ \E a \in 1..MaxApps, r \in ReplyActions : Act1(a, r, "ok")
    \/ \E a \in 1..MaxApps : Send(a, "ok")

SpecLife == Init /\ [][NextLife]_vars

\* Callers that start and stop bots.  The event loop resumes a coroutine
\* once the call it awaits has returned or raised, so a stop_bot call in
\* flight takes its next step: the steps of stop_bot are weakly fair.
NextStop ==
    \/ \E t \in Tasks, b \in BotIds, o \in Outcomes : StartCall(t, b, o)
    \/ \E t \in Tasks, o \in Outcomes : StartInitialize(t, o)
    \/ \E t \in Tasks, o \in Outcomes : StartStart(t, o)
    \/ \E t \in Tasks, o \in Outcomes : StartPolling(t, o)
    \/ \E t \in Tasks, o \in Outcomes : StartRegister(t, o)
    \/ \E t \in Tasks, b \in BotIds : StopCall(t, b)
    \/ \E t \in Tasks, o \in Outcomes : StopUpdater(t, o)
    \/ \E t \in Tasks, o \in Outcomes : StopApp(t, o)
    \/ \E t \in Tasks, o \in Outcomes : StopShutdown(t, o)
    \/ \E t \in Tasks, o \in Outcomes : StopUnregister(t, o)

StopSteps ==
    \E t \in Tasks, o \in Outcomes :
       StopUpdater(t, o) \/ StopApp(t, o) \/ StopShutdown(t, o)
          \/ StopUnregister(t, o)

SpecStop == Init /\ [][NextStop]_vars /\ WF_vars(StopSteps)

\* Two bots side by side, both with a row at the outset: one caller that
\* starts, stops, updates and deletes them, the store's statements succeeding
\* or raising and the transport's calls succeeding,
\* and their workers answering text messages directly.
IsoBots == {"b1", "b2"}

InitIso ==
    /\ bots \in [IsoBots -> BotRows]
    /\ chats = {}
    /\ messages = <<>>
    /\ running_bots = [b \in {} |-> 0]
    /\ apps = <<>>
    /\ task = [t \in Tasks |-> IdleTask]
    /\ last = NoCall
    /\ started = [b \in {} |-> 0]
    /\ clock = 0
    /\ handler = [a \in 1..MaxApps |-> IdleHandler]
    /\ history = <<>>

NextIso ==
    \/ \E b \in IsoBots, c \in Configs : UpdateCheck(1, b, c)
    \/ \E o \in Outcomes : UpdateWrite(1, o)
    \/ \E b \in IsoBots : StartCall(1, b, "ok")
    \/ StartInitialize(1, "ok")
    \/ StartStart(1, "ok")
    \/ StartPolling(1, "ok")
    \/ \E o \in Outcomes : StartRegister(1, o)
    \/ \E b \in IsoBots : StopCall(1, b)
    \/ StopUpdater(1, "ok")
    \/ StopApp(1, "ok")
    \/ StopShutdown(1, "ok")
    \/ \E o \in Outcomes : StopUnregister(1, o)
    \/ \E b \in IsoBots, o \in Outcomes : DeleteCall(1, b, o)
    \/ \E a \in 1..MaxApps, c \in ChatIds, x \in Texts :
          /\ handler[a].ev < MaxLifeEvents
          /\ HandleUpdate(a, c, "text", x, "ok")
    \/ \E a \in 1..MaxApps, r \in ReplyActions : Act1(a, r, "ok")
    \/ \E a \in 1..MaxApps : Send(a, "ok")

SpecIso == InitIso /\ [][NextIso]_vars

\* ------------------------------------------------------------ the claims
\* The workers of bot b: the applications of b whose polling receive loop
\* is active.
Workers(b) == {a \in DOMAIN apps : apps[a].bot = b /\ apps[a].polling}

\* C1: under any interleaving of start, stop and delete calls for one bot,
\* at most one worker (an application whose polling receive loop is active)
\* exists for that bot in every reachable state.
C1_AtMostOneWorker == \A b \in BotIds : Cardinality(Workers(b)) <= 1

C3_UpdateWhileRunning ==
    [][\A t \in Tasks, b \in BotIds, c \in Configs :
         (b \in DOMAIN running_bots /\ UpdateCheck(t, b, c))
         => /\ task' = task
            /\ last'.op = "update" /\ last'.bot = b
            /\ last'.ret = "False" /\ last'.why = "running"
            /\ bots' = bots]_vars

\* C3's case: an update was refused for a bot that is in the registry and
\* has a row.
C3_Witness ==
    /\ last.op = "update" /\ last.why = "running"
    /\ last.bot \in DOMAIN running_bots
    /\ has_bot(bots, last.bot)

\* C4: create(token, handle, cfg) succeeds with a bot_id and leaves a row
\* that get_bot reads back with configuration cfg and status stopped.
C4_CreateRoundTrip ==
    [][\A t \in Tasks, b \in BotIds, k \in Tokens, h \in Handles,
          c \in Configs :
         (b \notin DOMAIN bots /\ CreateBot(t, b, k, h, c))
         => /\ last'.ret = b
            /\ has_bot(bots', b)
            /\ get_bot(bots', b).config = c
            /\ get_bot(bots', b).status = "stopped"]_vars

\* C5: stop of a bot that has no handle in the registry returns the
\* not-running failure and leaves the registry, every row of the bots table
\* and every application as they were.
C5_StopNotRunning ==
    [][\A t \in Tasks, b \in BotIds :
         (b \notin DOMAIN running_bots /\ StopCall(t, b))
         => /\ task' = task
            /\ last'.op = "stop" /\ last'.bot = b
            /\ last'.ret = "False" /\ last'.why = "not_running"
            /\ running_bots' = running_bots
            /\ bots' = bots
            /\ apps' = apps]_vars

\* C5's case: a stop was refused as not running for a bot that has a row,
\* after an application had been constructed and initialized.
C5_Witness ==
    /\ last.op = "stop" /\ last.why = "not_running"
    /\ last.bot \notin DOMAIN running_bots
    /\ has_bot(bots, last.bot)
    /\ \E a \in DOMAIN apps : apps[a].initialized

\* C6: of two stop calls for one running bot that are in flight together,
\* exactly one returns success; when the second of them returns, the
\* registry has no handle for the bot and its persisted status is stopped.
C6_ConcurrentStops ==
    [][\A t \in Tasks :
         (task[t].op = "stop" /\ task[t].peerret # "none"
            /\ task'[t].pc = "idle")
         => /\ (last'.ret = "True") # (task[t].peerret = "True")
            /\ task[t].bot \notin DOMAIN running_bots'
            /\ has_bot(bots', task[t].bot)
                  => bots'[task[t].bot].status = "stopped"]_vars

\* C7: when start fails at the construction of the application or at
\* initialize, start or start_polling, then at its return the registry has
\* no handle for the bot and the bot's persisted status is stopped.
C7_FailedStartLeavesNothing ==
    [][/\ \A t \in Tasks :
            (task[t].op = "start"
               /\ task[t].pc \in {"initialize", "start", "start_polling"}
               /\ task'[t].pc = "idle")
            => /\ task[t].bot \notin DOMAIN running_bots'
               /\ has_bot(bots', task[t].bot)
                     => bots'[task[t].bot].status = "stopped"
       /\ \A t \in Tasks, b \in BotIds :
            (StartCall(t, b, "raise") /\ last'.why = "build" /\ last' # last)
            => /\ b \notin DOMAIN running_bots'
               /\ has_bot(bots', b) => bots'[b].status = "stopped"]_vars

\* C8: in no reachable state is the bots row of a bot absent while a handle
\* of that bot is in the registry.
C8_NoHandleWithoutRow == \A b \in DOMAIN running_bots : has_bot(bots, b)

\* The place of a history row among the rows of its worker: the inbound
\* row of update n, then the reply of update n, then update n + 1.
Rank(r) == 2 * r.ev + (IF r.is_from_bot THEN 1 ELSE 0)

\* C9: when get_chat_history returns, for two text messages M1 then M2 that
\* one worker handled one after the other in one chat, the inbound row and
\* the reply of each, it returns them in the order M1, M1's reply, M2, M2's
\* reply, also when rows carry the same timestamp.
C9_HistoryOrder ==
    (Len(history) = 4 /\ {Rank(history[i]) : i \in 1..4} = {2, 3, 4, 5})
    => \A i, j \in 1..4 : i < j => Rank(history[i]) < Rank(history[j])

\* C10: when the first completion call returns the action reply with a
\* Reply payload of message m, reply() returns exactly m after that one
\* completion call and no lookup.
C10_DirectReply ==
    \A a \in 1..MaxApps :
       (handler[a].returned /\ handler[a].first.action = "reply"
          /\ handler[a].first.input.type = "Reply")
       => /\ handler[a].out = handler[a].first.input.value
          /\ handler[a].ncomp = 1
          /\ handler[a].nlook = 0

\* C10's case: a pipeline run returned the message hello of a direct reply.
C10_Witness ==
    \E a \in 1..MaxApps :
       /\ handler[a].returned
       /\ handler[a].first = [action |-> "reply",
                               input |-> [type |-> "Reply", value |-> "hello"]]
       /\ handler[a].out = "hello"
       /\ handler[a].ncomp = 1

\* The first completion call of application a's pipeline run answered the
\* action product_search with a query, for a bot that has a catalog.
ToolUse(a) ==
    /\ a \in DOMAIN apps
    /\ handler[a].ncomp >= 1
    /\ wants_search(handler[a].first)
    /\ has_product_catalog(apps[a].config)

\* C11: when the first completion call answers product_search with a query
\* q for a bot with a catalog, the pipeline makes one lookup, with q; when
\* the lookup has answered it makes one second completion call, with the
\* forced reply shape and the lookup's answer; and when that call answers a
\* reply, reply() returns exactly its message: two completion calls and
\* one lookup in all.
C11_ToolUseFlow ==
    \A a \in 1..MaxApps :
       ToolUse(a) =>
          LET h == handler[a]
          IN  /\ h.query = h.first.input.value
              /\ IF h.pc = "lookup" THEN h.nlook = 0 /\ h.ncomp = 1
                                    ELSE h.nlook = 1
              /\ h.ctx # "none"
                    => /\ h.ctx \in Answers
                       /\ IF h.pc = "act2" THEN h.ncomp = 1 ELSE h.ncomp = 2
              /\ (h.returned /\ h.second \in ReplyActions)
                    => /\ h.out = h.second.input.value
                       /\ h.ncomp = 2 /\ h.nlook = 1

\* C11's case: a pipeline run went through the lookup and returned the
\* message hello of the second completion call, which was then sent.
C11_Witness ==
    \E a \in 1..MaxApps :
       /\ ToolUse(a)
       /\ handler[a].returned
       /\ handler[a].query = "red shoes" /\ handler[a].ctx = "in stock"
       /\ handler[a].second.action = "reply"
       /\ handler[a].second.input.value = "hello"
       /\ handler[a].out = "hello" /\ handler[a].sent = "hello"
       /\ handler[a].ncomp = 2 /\ handler[a].nlook = 1

\* C12: when the backend answers the second, forced-shape completion call
\* with an action other than reply, reply() raises to its caller: it
\* returns no text as a normal result, and no third completion call is made.
C12_ContractViolation ==
    \A a \in 1..MaxApps :
       (handler[a].second \in Actions /\ handler[a].second.action # "reply")
       => /\ ~handler[a].returned
          /\ handler[a].ncomp = 2

\* C13: when a running worker has dealt with an update that has a chat and
\* no text in update.message, it has sent the fixed fallback text to the
\* chat, inserted no message row and made no completion call.
C13_NonTextFallback ==
    \A a \in 1..MaxApps :
       (handler[a].ev > 0 /\ handler[a].kind \in Kinds \ {"text"}
          /\ handler[a].pc = "idle")
       => /\ handler[a].sent = Fallback
          /\ handler[a].nrows = 0
          /\ handler[a].ncomp = 0

\* C14: when something raised while a worker handled an update (a store
\* call, a completion call, the lookup, a violated contract), the handling
\* ends with the apology sent to the chat, and the worker goes on
\* receiving.
C14_FailureBecomesApology ==
    \A a \in DOMAIN apps :
       (handler[a].pc = "idle"
          /\ handler[a].fail \in {"store", "completion", "lookup", "contract",
                                  "catalog", "shape"})
       => /\ handler[a].sent = Apology
          /\ apps[a].running /\ apps[a].polling

\* C15: every step that inserts a message row inserts it for a (chat_id,
\* bot_id) whose chat row is in the store at that moment, whatever start,
\* stop and delete calls run in between the steps of the handler.
C15_MessageHasChat ==
    [][(/\ Len(messages') = Len(messages) + 1
        /\ SubSeq(messages', 1, Len(messages)) = messages)
       => LET r == messages'[Len(messages')]
          IN  \E c \in chats' : c.chat_id = r.chat_id /\ c.bot_id = r.bot_id]_vars

\* C16: when an orchestrator call returns because a store write failed, it
\* reports failure, and the step in which the write failed leaves the
\* registry and the bots table as they were.
C16_StoreFailureChangesNothing ==
    [][\A t \in Tasks :
         (~Free(t) /\ task'[t].pc = "idle" /\ last'.why = "store"
            /\ last'.op = task[t].op /\ last'.bot = task[t].bot)
         => /\ last'.ret \in {"False", "raise"}
            /\ running_bots' = running_bots
            /\ bots' = bots]_vars

\* C17: in every state in which an application of bot b can receive an
\* update (its receive loop polls and it dispatches) or is handling one, b
\* has a handle in the registry.
C17_RegisteredBeforeReceiving ==
    \A a \in DOMAIN apps :
       ((apps[a].running /\ apps[a].polling) \/ handler[a].pc # "idle")
       => apps[a].bot \in DOMAIN running_bots

\* A stop_bot call for bot b is in flight.
Stopping(b) ==
    \E t \in Tasks : task[t].op = "stop" /\ task[t].bot = b /\ ~Free(t)

\* C18: a stop_bot call in flight for a registered bot leads to a state in
\* which the registry has no handle for the bot and its persisted status is
\* stopped, also when a shutdown call of the transport raises.
C18_StopRemovesHandle ==
    \A b \in BotIds :
       (b \in DOMAIN running_bots /\ Stopping(b))
       ~> (b \notin DOMAIN running_bots
             /\ (has_bot(bots, b) => bots[b].status = "stopped"))

\* C19: when a stop_bot call of bot b returns success, no application of
\* b is handling an update; and as long as that success is the last answer
\* any call has returned (so before any later start has succeeded), no
\* handler of b takes a step: none inserts a row or sends.
C19_NoHandlingAfterStop ==
    [][\A a \in DOMAIN apps :
         /\ (last' # last /\ last'.op = "stop" /\ last'.ret = "True"
               /\ last'.bot = apps[a].bot)
            => handler'[a].pc = "idle"
         /\ (last.op = "stop" /\ last.ret = "True" /\ last.bot = apps[a].bot)
            => handler'[a] = handler[a]]_vars

\* C20: in every state of every pipeline run (direct reply, tool use, a
\* call that raises, a tag that does not match its payload) at most two
\* completion calls and at most one lookup have been made; a lookup has
\* been made only after a first answer with the action product_search, and
\* a second completion call only after the lookup.
C20_BoundedPipeline ==
    \A a \in 1..MaxApps :
       /\ handler[a].ncomp <= 2
       /\ handler[a].nlook <= 1
       /\ handler[a].nlook = 1
            => handler[a].ncomp >= 1 /\ handler[a].first.action = "product_search"
       /\ handler[a].ncomp = 2 => handler[a].nlook = 1
       /\ handler[a].returned => handler[a].pc \in {"send", "idle"}

\* C20's case: a pipeline run that made the lookup and two completion
\* calls, the second of which broke the contract, has returned.
C20_Witness ==
    \E a \in 1..MaxApps :
       /\ handler[a].returned
       /\ handler[a].ncomp = 2 /\ handler[a].nlook = 1
       /\ handler[a].fail = "contract"
       /\ handler[a].out = Apology

Live(a) == apps[a].initialized /\ apps[a].running /\ apps[a].polling

\* C22: every step that makes the persisted status of a bot running is the
\* last step of a start_bot call of that bot whose application is live, and
\* every start_bot call that returns success has a live application: no
\* status running is written for a connection that failed or is not yet
\* complete.
C22_RunningOnlyWhenLive ==
    [][/\ \A b \in BotIds :
            (/\ has_bot(bots', b) /\ bots'[b].status = "running"
             /\ ~(has_bot(bots, b) /\ bots[b].status = "running"))
            => \E t \in Tasks :
                  /\ task[t].op = "start" /\ task[t].bot = b
                  /\ task[t].pc = "register" /\ task'[t].pc = "idle"
                  /\ Live(task[t].app)
       /\ \A t \in Tasks :
            (task[t].op = "start" /\ task'[t].pc = "idle"
               /\ last'.why = "started")
            => /\ task[t].pc = "register"
               /\ Live(task[t].app)
               /\ apps' = apps]_vars

\* C22's case: a start has just returned success with status running
\* written, for the live application it registered, while an earlier
\* application of the bot does not poll (its connection failed, or it was
\* stopped).
C22_Witness ==
    /\ last.op = "start" /\ last.why = "started"
    /\ has_bot(bots, last.bot) /\ bots[last.bot].status = "running"
    /\ last.bot \in DOMAIN running_bots
    /\ running_bots[last.bot] = 2
    /\ Live(2)
    /\ ~apps[1].polling

\* C23: whenever an application of a bot polls, the configuration its reply
\* function was built over is the configuration the bot's row holds: no
\* update_bot has succeeded since start_bot read the row.
C23_WorkerConfigIsPersisted ==
    \A a \in DOMAIN apps :
       (apps[a].polling /\ has_bot(bots, apps[a].bot))
       => apps[a].config = get_bot(bots, apps[a].bot).config

\* C24: in every state in which no call of the manager is in flight, the
\* persisted status of every bot that has a row is running exactly when the
\* registry holds a handle for the bot.
C24_StatusIffRegistered ==
    (\A t \in Tasks : Free(t))
    => \A b \in DOMAIN bots :
          (bots[b].status = "running") <=> (b \in DOMAIN running_bots)

\* The messages table holds the text that application a's handler got from
\* reply() as a bot row of the handler's chat and update.
Recorded(a) ==
    \E j \in 1..Len(messages) :
       /\ messages[j].is_from_bot
       /\ messages[j].message_text = handler[a].out
       /\ messages[j].chat_id = handler[a].chat
       /\ messages[j].bot_id = apps[a].bot
       /\ messages[j].ev = handler[a].ev

\* C25: whenever a handler is about to send a text, has sent it, or has
\* failed to send it, the text (reply, apology or fallback notice) is a bot
\* row of that chat in the messages table; what was sent is that text; and
\* after a failed send the handler has ended with the row kept and nothing
\* delivered.
C25_RecordedBeforeSend ==
    \A a \in DOMAIN apps :
       LET h == handler[a]
       IN  /\ (h.pc = "send" \/ h.sent # "none"
                 \/ h.fail \in {"send", "no_message"})
              => Recorded(a)
           /\ h.sent # "none" => h.sent = h.out /\ h.pc = "idle"
           /\ h.fail \in {"send", "no_message"}
                => h.pc = "idle" /\ h.sent = "none"

\* C25's case: the send of the apology failed, and the apology is in the
\* messages table.
C25_Witness ==
    \E a \in DOMAIN apps :
       /\ handler[a].fail = "send" /\ handler[a].out = Apology
       /\ handler[a].pc = "idle"
       /\ Recorded(a)

\* A step leaves alone everything that belongs to a bot other than b: its
\* registry entry, its bots row, its chat rows and its message rows.
Untouched(b) ==
    \A c \in IsoBots \ {b} :
       /\ (c \in DOMAIN running_bots') = (c \in DOMAIN running_bots)
       /\ c \in DOMAIN running_bots => running_bots'[c] = running_bots[c]
       /\ has_bot(bots', c) = has_bot(bots, c)
       /\ has_bot(bots, c) => bots'[c] = bots[c]
       /\ {x \in chats' : x.bot_id = c} = {x \in chats : x.bot_id = c}
       /\ SelectSeq(messages', LAMBDA r : r.bot_id = c)
             = SelectSeq(messages, LAMBDA r : r.bot_id = c)

\* C26: a step of a start, stop, update or delete call for bot A, and a step
\* of a handler of A's application, changes no registry entry, bots row,
\* chat row or message row of a bot other than A.
C26_Isolation ==
    [][/\ \A t \in Tasks, b \in IsoBots, o \in Outcomes :
            (\/ StartCall(t, b, o) \/ StopCall(t, b) \/ DeleteCall(t, b, o)
             \/ \E c \in Configs : UpdateCheck(t, b, c))
            => Untouched(b)
       /\ \A t \in Tasks :
            (~Free(t) /\ task'[t] # task[t]) => Untouched(task[t].bot)
       /\ \A a \in DOMAIN apps :
            handler'[a] # handler[a] => Untouched(apps[a].bot)]_vars

\* C26's case: bot b1 has just been deleted while bot b2 is registered with
\* status running and has a message row.
C26_Witness ==
    /\ last.op = "delete" /\ last.ret = "True" /\ last.bot = "b1"
    /\ "b2" \in DOMAIN running_bots
    /\ has_bot(bots, "b2") /\ bots["b2"].status = "running"
    /\ \E j \in 1..Len(messages) : messages[j].bot_id = "b2"

====
